---- MODULE Spec2Model ----
(***************************************************************************)
(* filament::Program (filament/src/driver/Program.h): the shader-program   *)
(* descriptor a material hands to a backend.  The state is the private     *)
(* data members of each Program object; the operations are the public      *)
(* setters, the accessors and the move operations.                         *)
(*                                                                         *)
(* Program.h declares the out-of-line members (constructor, move           *)
(* operations, diagnostics, shader, addUniformBlock, addSamplerBlock,      *)
(* withSamplerBindings) without defining them; their bodies are modelled   *)
(* from spec.md section 4.1.  The inline members (withVertexShader,        *)
(* withFragmentShader, the accessors, hasSamplers), the default member     *)
(* initialisers and the default argument are modelled from the header.     *)
(***************************************************************************)
EXTENDS Integers, Sequences, FiniteSets, TLC

VARIABLES
    prog,   \* prog[p]: the data members of Program object p
    owner,  \* the object the caller is currently populating
    last,   \* the last call: operation, object, arguments, returned value, raised error
    dom,    \* the argument tuples the caller draws from (fixed along a behaviour)
    todo    \* the calls of the caller's script (dom.script) not yet made

vars == <<prog, owner, last, dom, todo>>

----------------------------------------------------------------------------
(* Constants of the class *)

NUM_SHADER_TYPES == 2

\* filament::BindingPoints::COUNT (EngineEnums.h); the model keeps it small
BindingPoints_COUNT == 3

NUM_UNIFORM_BINDINGS == BindingPoints_COUNT

NUM_SAMPLER_BINDINGS == BindingPoints_COUNT

VERTEX == 0

FRAGMENT == 1

\* uint8_t: values are kept modulo 2^8
UINT8_RANGE == 256

\* a default argument of 1
variantKey_default_One == 0 + 1

\* default argument of diagnostics(name, variantKey = 0)
variantKey_default == 0

\* the model stops counting sampler blocks here (mSamplerCount is a size_t)
MaxSamplerCount == 4

nullptr == "nullptr"

Progs == {"P", "Q"}

Other(p) == IF p = "P" THEN "Q" ELSE "P"

ShaderIndices == 0 .. (NUM_SHADER_TYPES - 1)

UniformIndices == 0 .. (NUM_UNIFORM_BINDINGS - 1)

SamplerIndices == 0 .. (NUM_SAMPLER_BINDINGS - 1)

----------------------------------------------------------------------------
(* Data members and construction *)

\* the sampler array without its "= {}": the slots hold whatever the storage held
MemberInit_NoSamplerInit(variant) ==
    [ mUniformInterfaceBlocks |-> [i \in UniformIndices |-> nullptr],
      mSamplerInterfaceBlocks |-> [i \in SamplerIndices |-> "garbage"],
      mSamplerBindings        |-> nullptr,
      mShadersSource          |-> [s \in ShaderIndices |-> << >>],
      mSamplerCount           |-> 0,
      mName                   |-> "",
      mVariant                |-> variant ]

\* the default member initialisers; mVariant has none and is left to the constructor
MemberInit(variant) ==
    [ mUniformInterfaceBlocks |-> [i \in UniformIndices |-> nullptr],
      mSamplerInterfaceBlocks |-> [i \in SamplerIndices |-> nullptr],
      mSamplerBindings        |-> nullptr,
      mShadersSource          |-> [s \in ShaderIndices |-> << >>],
      mSamplerCount           |-> 0,
      mName                   |-> "",
      mVariant                |-> variant ]

\* Program::Program(): an empty descriptor with default name and variant
ProgramCtor == MemberInit(variantKey_default)

----------------------------------------------------------------------------
(* Setters, as functions of the object's members *)

\* diagnostics(name, variantKey): variantKey is converted to uint8_t
diagnostics(pr, name, variantKey) ==
    [pr EXCEPT !.mName = name, !.mVariant = variantKey % UINT8_RANGE]

\* shader(shader, data, size): copies size bytes of data into the stage's buffer
shader(pr, stage, data, size) ==
    [pr EXCEPT !.mShadersSource[stage] = SubSeq(data, 1, size)]

\* withVertexShader forwarding the fragment stage
withVertexShader_WrongStage(pr, data, size) == shader(pr, FRAGMENT, data, size)

withVertexShader(pr, data, size) == shader(pr, VERTEX, data, size)

\* withFragmentShader forwarding the vertex stage
withFragmentShader_WrongStage(pr, data, size) == shader(pr, VERTEX, data, size)

withFragmentShader(pr, data, size) == shader(pr, FRAGMENT, data, size)

addUniformBlock(pr, index, ib) ==
    [pr EXCEPT !.mUniformInterfaceBlocks[index] = ib]

\* stores the reference; counts the slot when it goes from empty to occupied
addSamplerBlock(pr, index, sb) ==
    [pr EXCEPT !.mSamplerInterfaceBlocks[index] = sb,
               !.mSamplerCount =
                   IF pr.mSamplerInterfaceBlocks[index] = nullptr /\ sb # nullptr
                   THEN @ + 1 ELSE @]

withSamplerBindings(pr, bindings) ==
    [pr EXCEPT !.mSamplerBindings = bindings]

\* addUniformBlock with index >= NUM_UNIFORM_BINDINGS: the unchecked store is undefined
\* behaviour.  The builds either leave the members as they were or store into the
\* member that follows the array, mSamplerInterfaceBlocks; none reports an error.
addUniformBlock_OutOfRange(pr, index, ib) ==
    {pr} \cup
    { [pr EXCEPT !.mSamplerInterfaceBlocks[i] = ib] :
        i \in {index - NUM_UNIFORM_BINDINGS} \cap SamplerIndices }

\* addSamplerBlock with index >= NUM_SAMPLER_BINDINGS: as above; the member that
\* follows the array is mSamplerBindings, and the count follows the word it read.
addSamplerBlock_OutOfRange(pr, index, sb) ==
    {pr} \cup
    { [pr EXCEPT !.mSamplerBindings = sb,
                 !.mSamplerCount =
                     IF pr.mSamplerBindings = nullptr /\ sb # nullptr
                     THEN @ + 1 ELSE @] :
        i \in {index} \cap {NUM_SAMPLER_BINDINGS} }

\* Program(Program&&), operator=(Program&&): what the destination holds afterwards
MoveDestination(rhs) == rhs

\* a member-wise move: the vectors and the string are emptied, the pointers and
\* the scalars keep their values
MoveSource_Memberwise(rhs) ==
    [rhs EXCEPT !.mShadersSource = [s \in ShaderIndices |-> << >>], !.mName = ""]

\* ... and what the moved-from object holds afterwards
MoveSource(rhs) == ProgramCtor

----------------------------------------------------------------------------
(* Accessors *)

getShadersSource(pr) == pr.mShadersSource

\* the uniform accessor returning the sampler array
getUniformInterfaceBlocks_SamplerArray(pr) == pr.mSamplerInterfaceBlocks

getUniformInterfaceBlocks(pr) == pr.mUniformInterfaceBlocks

getSamplerInterfaceBlocks(pr) == pr.mSamplerInterfaceBlocks

getSamplerBindings(pr) == pr.mSamplerBindings

getName(pr) == pr.mName

getVariant(pr) == pr.mVariant

\* hasSamplers() comparing with 1
hasSamplers_OffByOne(pr) == pr.mSamplerCount > 1

hasSamplers(pr) == pr.mSamplerCount > 0

----------------------------------------------------------------------------
(* The caller's arguments *)

\* one call of every setter
DomBase ==
    [ diagArgs    |-> { <<"mat", 7>> },
      diagNames   |-> { "mat" },
      shaderArgs  |-> { <<VERTEX, <<3>>, 1>> },
      vsArgs      |-> { << <<3>>, 1 >> },
      fsArgs      |-> { << <<3>>, 1 >> },
      uniformArgs |-> { <<0, "U">> },
      samplerArgs |-> { <<2, "S">> },
      bindingArgs |-> { "M" },
      both        |-> FALSE,
      script      |-> {} ]

\* every uniform slot; at slot 0 also a second block and the null reference
DomUniform ==
    [DomBase EXCEPT !.uniformArgs =
        (UniformIndices \X {"U"}) \cup { <<0, "U2">>, <<0, nullptr>> }]

\* every sampler slot, a block or the null reference; at slot 0 also a second block
DomSampler ==
    [DomBase EXCEPT !.samplerArgs =
        (SamplerIndices \X {"S", nullptr}) \cup { <<0, "S2">> }]

Blobs == { << << >>, 0 >>, << <<1, 2>>, 2 >>, << <<3>>, 1 >>, << <<1, 2>>, 1 >> }

\* both stages, several buffers (the empty one, and a size below the buffer's length)
DomShader ==
    [DomBase EXCEPT !.shaderArgs = { <<s, b[1], b[2]>> : s \in ShaderIndices, b \in Blobs },
                    !.vsArgs = Blobs,
                    !.fsArgs = Blobs]

\* two names, the ends and the middle of the uint8_t range
DomDiag ==
    [DomBase EXCEPT !.diagArgs = {"mat", "mat2", ""} \X {0, 1, 255},
                    !.diagNames = {"mat", "mat2"},
                    !.bindingArgs = {"M", "M2", nullptr}]

Call(op, args) == [op |-> op, args |-> args]

\* the end-to-end scenario of spec.md section 8
ScenarioCalls ==
    { Call("shader", <<VERTEX, <<1, 2>>, 2>>),
      Call("shader", <<FRAGMENT, <<3>>, 1>>),
      Call("addUniformBlock", <<0, "U">>),
      Call("addSamplerBlock", <<2, "S">>) }

DomScenario ==
    [DomBase EXCEPT !.shaderArgs = { <<VERTEX, <<1, 2>>, 2>>, <<FRAGMENT, <<3>>, 1>> },
                    !.vsArgs = { << <<1, 2>>, 2 >> },
                    !.fsArgs = { << <<3>>, 1 >> },
                    !.script = ScenarioCalls]

\* both objects are populated, so that a move finds a populated destination
DomMove ==
    [DomBase EXCEPT !.both = TRUE]

----------------------------------------------------------------------------
(* Operations *)

Record(op, p, args, r) == [op |-> op, p |-> p, args |-> args, ret |-> r, raised |-> "none"]

MayMutate(p) == p = owner \/ dom.both

\* a setter call on p that leaves the members npr; it returns *this
Set(op, p, args, npr, call) ==
    /\ MayMutate(p)
    /\ npr.mSamplerCount <= MaxSamplerCount
    /\ prog' = [prog EXCEPT ![p] = npr]
    /\ last' = Record(op, p, args, p)
    /\ todo' = todo \ {call}
    /\ UNCHANGED <<owner, dom>>

\* an accessor call on p returning r
Get(op, p, r) ==
    /\ last' = Record(op, p, << >>, r)
    /\ UNCHANGED <<prog, owner, dom, todo>>

DiagnosticsCopy(p) ==
    \E a \in dom.diagArgs :
        Set("diagnostics", p, a, diagnostics(prog[p], a[1], a[2]), Call("diagnostics", a))

DiagnosticsMove(p) ==
    \E a \in dom.diagArgs :
        Set("diagnostics&&", p, a, diagnostics(prog[p], a[1], a[2]), Call("diagnostics", a))

DiagnosticsDefaultKey(p) ==
    \E n \in dom.diagNames :
        Set("diagnostics(name)", p, <<n>>, diagnostics(prog[p], n, variantKey_default),
            Call("diagnostics", <<n, variantKey_default>>))

Shader(p) ==
    \E a \in dom.shaderArgs :
        Set("shader", p, a, shader(prog[p], a[1], a[2], a[3]), Call("shader", a))

WithVertexShader(p) ==
    \E a \in dom.vsArgs :
        Set("withVertexShader", p, a, withVertexShader(prog[p], a[1], a[2]),
            Call("shader", <<VERTEX, a[1], a[2]>>))

WithFragmentShader(p) ==
    \E a \in dom.fsArgs :
        Set("withFragmentShader", p, a, withFragmentShader(prog[p], a[1], a[2]),
            Call("shader", <<FRAGMENT, a[1], a[2]>>))

AddUniformBlock(p) ==
    \E a \in dom.uniformArgs :
        Set("addUniformBlock", p, a, addUniformBlock(prog[p], a[1], a[2]),
            Call("addUniformBlock", a))

AddSamplerBlock(p) ==
    \E a \in dom.samplerArgs :
        Set("addSamplerBlock", p, a, addSamplerBlock(prog[p], a[1], a[2]),
            Call("addSamplerBlock", a))

WithSamplerBindings(p) ==
    \E b \in dom.bindingArgs :
        Set("withSamplerBindings", p, <<b>>, withSamplerBindings(prog[p], b),
            Call("withSamplerBindings", <<b>>))

\* the same calls with the index moved past the end of the array
SetOutOfRange(op, p, args, npr) ==
    /\ MayMutate(p)
    /\ npr.mSamplerCount <= MaxSamplerCount
    /\ prog' = [prog EXCEPT ![p] = npr]
    /\ last' = [op |-> op, p |-> p, args |-> args, ret |-> p, raised |-> "none",
                before |-> prog[p]]
    /\ UNCHANGED <<owner, dom, todo>>

AddUniformBlockOutOfRange(p) ==
    \E a \in dom.uniformArgs :
        \E npr \in addUniformBlock_OutOfRange(prog[p], a[1] + NUM_UNIFORM_BINDINGS, a[2]) :
            SetOutOfRange("addUniformBlock", p, <<a[1] + NUM_UNIFORM_BINDINGS, a[2]>>, npr)

AddSamplerBlockOutOfRange(p) ==
    \E a \in dom.samplerArgs :
        \E npr \in addSamplerBlock_OutOfRange(prog[p], a[1] + NUM_SAMPLER_BINDINGS, a[2]) :
            SetOutOfRange("addSamplerBlock", p, <<a[1] + NUM_SAMPLER_BINDINGS, a[2]>>, npr)

\* dst is constructed from, or assigned, the moved src
Move(op, src) ==
    /\ MayMutate(src)
    /\ prog' = [prog EXCEPT ![Other(src)] = MoveDestination(prog[src]),
                            ![src] = MoveSource(prog[src])]
    /\ owner' = Other(src)
    /\ last' = Record(op, Other(src), <<src>>, Other(src))
    /\ UNCHANGED <<dom, todo>>

MoveConstruct(src) == Move("Program(Program&&)", src)

MoveAssign(src) == Move("operator=(Program&&)", src)

GetShadersSource(p) == Get("getShadersSource", p, getShadersSource(prog[p]))

GetUniformInterfaceBlocks(p) ==
    Get("getUniformInterfaceBlocks", p, getUniformInterfaceBlocks(prog[p]))

GetSamplerInterfaceBlocks(p) ==
    Get("getSamplerInterfaceBlocks", p, getSamplerInterfaceBlocks(prog[p]))

GetSamplerBindings(p) == Get("getSamplerBindings", p, getSamplerBindings(prog[p]))

GetName(p) == Get("getName", p, getName(prog[p]))

GetVariant(p) == Get("getVariant", p, getVariant(prog[p]))

HasSamplers(p) == Get("hasSamplers", p, hasSamplers(prog[p]))

----------------------------------------------------------------------------
(* Specifications *)

InitWith(d) ==
    /\ prog = [p \in Progs |-> ProgramCtor]
    /\ owner = "P"
    /\ last = Record("Program()", "P", << >>, "P")
    /\ dom = d
    /\ todo = d.script

Init == \E d \in {DomUniform, DomSampler, DomShader, DomDiag} : InitWith(d)

Next ==
    \E p \in Progs :
        \/ DiagnosticsCopy(p)
        \/ DiagnosticsMove(p)
        \/ DiagnosticsDefaultKey(p)
        \/ Shader(p)
        \/ WithVertexShader(p)
        \/ WithFragmentShader(p)
        \/ AddUniformBlock(p)
        \/ AddSamplerBlock(p)
        \/ WithSamplerBindings(p)
        \/ MoveConstruct(p)
        \/ MoveAssign(p)
        \/ GetShadersSource(p)
        \/ GetUniformInterfaceBlocks(p)
        \/ GetSamplerInterfaceBlocks(p)
        \/ GetSamplerBindings(p)
        \/ GetName(p)
        \/ GetVariant(p)
        \/ HasSamplers(p)

Spec == Init /\ [][Next]_vars

SpecUniform == InitWith(DomUniform) /\ [][Next]_vars

SpecSampler == InitWith(DomSampler) /\ [][Next]_vars

SpecShader == InitWith(DomShader) /\ [][Next]_vars

SpecDiag == InitWith(DomDiag) /\ [][Next]_vars

SpecScenario == InitWith(DomScenario) /\ [][Next]_vars

SpecMove == InitWith(DomMove) /\ [][Next]_vars

\* callers that also break the index precondition of the two add operations
DomOutOfRange ==
    [DomBase EXCEPT !.uniformArgs = { <<0, "U">>, <<1, "U">> },
                    !.samplerArgs = { <<0, "S">>, <<2, "S">> }]

NextOutOfRange ==
    \/ Next
    \/ \E p \in Progs : AddUniformBlockOutOfRange(p)
    \/ \E p \in Progs : AddSamplerBlockOutOfRange(p)

SpecOutOfRange == InitWith(DomOutOfRange) /\ [][NextOutOfRange]_vars

----------------------------------------------------------------------------
(* Properties *)

Fields == DOMAIN ProgramCtor

\* the members a and b agree on every field outside changed
SameExcept(a, b, changed) == \A f \in Fields \ changed : a[f] = b[f]

Populated(pr) == {i \in SamplerIndices : getSamplerInterfaceBlocks(pr)[i] # nullptr}

DiagnosticsOps == {"diagnostics", "diagnostics&&", "diagnostics(name)"}

ShaderOps == {"shader", "withVertexShader", "withFragmentShader"}

MoveOps == {"Program(Program&&)", "operator=(Program&&)"}

AccessorOps ==
    {"getShadersSource", "getUniformInterfaceBlocks", "getSamplerInterfaceBlocks",
     "getSamplerBindings", "getName", "getVariant", "hasSamplers"}

\* the stage, buffer and size a shader-setting call was given
StageOf(l) ==
    IF l.op = "shader" THEN l.args[1]
    ELSE IF l.op = "withVertexShader" THEN VERTEX ELSE FRAGMENT

DataOf(l) == IF l.op = "shader" THEN l.args[2] ELSE l.args[1]

SizeOf(l) == IF l.op = "shader" THEN l.args[3] ELSE l.args[2]

\* C1: in every reachable state, hasSamplers() (samplerCount > 0) holds if and only
\* if at least one sampler slot is populated, whatever was passed to addSamplerBlock
\* (a null reference included).
C1_HasSamplersIffPopulated ==
    \A p \in Progs : hasSamplers(prog[p]) <=> Populated(prog[p]) # {}

C3_OutOfRangeRaisesInvalidBinding ==
    (/\ last.op \in {"addUniformBlock", "addSamplerBlock"}
     /\ last.args[1] \notin UniformIndices)
        => /\ last.raised = "InvalidBinding"
           /\ prog[last.p] = last.before

\* C4: a move (construction or assignment) gives the destination exactly the members
\* the source held and leaves the source as a default-constructed Program: empty
\* buffers, empty slots, no binding map, zero sampler count, default name and variant.
C4_MoveTransfers ==
    [][last'.op \in MoveOps =>
        LET src == last'.args[1]
            dst == last'.p
        IN  /\ dst # src
            /\ prog'[dst] = prog[src]
            /\ \A s \in ShaderIndices : getShadersSource(prog'[src])[s] = << >>
            /\ \A i \in UniformIndices : getUniformInterfaceBlocks(prog'[src])[i] = nullptr
            /\ \A i \in SamplerIndices : getSamplerInterfaceBlocks(prog'[src])[i] = nullptr
            /\ getSamplerBindings(prog'[src]) = nullptr
            /\ prog'[src].mSamplerCount = 0
            /\ ~hasSamplers(prog'[src])
            /\ getName(prog'[src]) = ""
            /\ getVariant(prog'[src]) = 0]_vars

\* a populated object was move-assigned: the destination holds everything, the
\* source nothing
C4_Witness ==
    /\ last.op = "operator=(Program&&)"
    /\ LET dst == prog[last.p]
           src == prog[last.args[1]]
       IN  /\ getName(dst) = "mat" /\ getVariant(dst) = 7
           /\ getShadersSource(dst)[VERTEX] = <<3>>
           /\ getShadersSource(dst)[FRAGMENT] = <<3>>
           /\ getUniformInterfaceBlocks(dst)[0] = "U"
           /\ getSamplerInterfaceBlocks(dst)[2] = "S"
           /\ getSamplerBindings(dst) = "M"
           /\ hasSamplers(dst)
           /\ src = ProgramCtor

\* C5: addUniformBlock(i, r) with a valid i leaves r in slot i of
\* getUniformInterfaceBlocks(), whatever the slot held (last write wins), and every
\* slot j # i as it was.
C5_UniformLastWriteWins ==
    [][last'.op = "addUniformBlock" =>
        LET p == last'.p
            i == last'.args[1]
            r == last'.args[2]
        IN  /\ getUniformInterfaceBlocks(prog'[p])[i] = r
            /\ \A j \in UniformIndices \ {i} :
                   getUniformInterfaceBlocks(prog'[p])[j]
                       = getUniformInterfaceBlocks(prog[p])[j]]_vars

\* slot 0 holds the second block, the other slots the blocks stored earlier
C5_Witness ==
    /\ last.op = "addUniformBlock"
    /\ last.args = <<0, "U2">>
    /\ getUniformInterfaceBlocks(prog[last.p])[0] = "U2"
    /\ getUniformInterfaceBlocks(prog[last.p])[1] = "U"
    /\ getUniformInterfaceBlocks(prog[last.p])[2] = nullptr

\* C6: shader(stage, B, |B|), withVertexShader(B, |B|) and withFragmentShader(B, |B|)
\* leave exactly B in the stage's buffer, whatever it held, and the other stage's
\* buffer as it was.
C6_ShaderLastWriteWins ==
    [][(last'.op \in ShaderOps /\ SizeOf(last') = Len(DataOf(last'))) =>
        LET p == last'.p
            stage == StageOf(last')
        IN  /\ getShadersSource(prog'[p])[stage] = DataOf(last')
            /\ \A s \in ShaderIndices \ {stage} :
                   getShadersSource(prog'[p])[s] = getShadersSource(prog[p])[s]]_vars

\* the fragment stage was set to the empty buffer next to a populated vertex stage
C6_Witness ==
    /\ last.op = "withFragmentShader"
    /\ last.args = << << >>, 0 >>
    /\ getShadersSource(prog[last.p])[FRAGMENT] = << >>
    /\ getShadersSource(prog[last.p])[VERTEX] = <<1, 2>>

\* C7: after diagnostics(N, V), getName() is N and getVariant() is V; with the
\* variant key omitted getVariant() is 0; the values of an earlier call are replaced.
C7_DiagnosticsRoundTrip ==
    /\ last.op \in {"diagnostics", "diagnostics&&"} =>
           /\ getName(prog[last.p]) = last.args[1]
           /\ getVariant(prog[last.p]) = last.args[2]
    /\ last.op = "diagnostics(name)" =>
           /\ getName(prog[last.p]) = last.args[1]
           /\ getVariant(prog[last.p]) = 0

\* the key was omitted on an object that had a name and a key
C7_Witness ==
    /\ last.op = "diagnostics(name)"
    /\ last.args = <<"mat2">>
    /\ getName(prog[last.p]) = "mat2"
    /\ getVariant(prog[last.p]) = 0

\* C8: once the four calls of the scenario have been made on a default-constructed
\* Program, in any order, the vertex buffer is [1,2], the fragment buffer [3],
\* uniform slot 0 is U, sampler slot 2 is S, hasSamplers() is true and every other
\* slot is empty.
C8_Scenario ==
    todo = {} =>
        LET pr == prog[owner]
        IN  /\ getShadersSource(pr)[VERTEX] = <<1, 2>>
            /\ getShadersSource(pr)[FRAGMENT] = <<3>>
            /\ getUniformInterfaceBlocks(pr)[0] = "U"
            /\ getSamplerInterfaceBlocks(pr)[2] = "S"
            /\ hasSamplers(pr)
            /\ \A i \in UniformIndices \ {0} : getUniformInterfaceBlocks(pr)[i] = nullptr
            /\ \A i \in SamplerIndices \ {2} : getSamplerInterfaceBlocks(pr)[i] = nullptr

\* the scenario is complete and the uniform block was the last of its calls
C8_Witness ==
    /\ dom.script = ScenarioCalls
    /\ todo = {}
    /\ last.op = "addUniformBlock"
    /\ last.p = owner

\* C9: in every reachable state samplerCount is the number of populated sampler
\* slots, and so at most the number of binding points.
C9_CountEqualsPopulated ==
    \A p \in Progs :
        /\ prog[p].mSamplerCount = Cardinality(Populated(prog[p]))
        /\ prog[p].mSamplerCount <= NUM_SAMPLER_BINDINGS

\* C10: a setter changes only its own members of the object it is called on, and an
\* accessor changes nothing.
C10_Frame ==
    [][LET op == last'.op
           p == last'.p
       IN  /\ op \in DiagnosticsOps =>
                  /\ SameExcept(prog[p], prog'[p], {"mName", "mVariant"})
                  /\ prog'[Other(p)] = prog[Other(p)]
           /\ op \in ShaderOps =>
                  /\ SameExcept(prog[p], prog'[p], {"mShadersSource"})
                  /\ \A s \in ShaderIndices \ {StageOf(last')} :
                         prog'[p].mShadersSource[s] = prog[p].mShadersSource[s]
                  /\ prog'[Other(p)] = prog[Other(p)]
           /\ op = "addUniformBlock" =>
                  /\ SameExcept(prog[p], prog'[p], {"mUniformInterfaceBlocks"})
                  /\ \A j \in UniformIndices \ {last'.args[1]} :
                         prog'[p].mUniformInterfaceBlocks[j]
                             = prog[p].mUniformInterfaceBlocks[j]
                  /\ prog'[Other(p)] = prog[Other(p)]
           /\ op = "addSamplerBlock" =>
                  /\ SameExcept(prog[p], prog'[p],
                                {"mSamplerInterfaceBlocks", "mSamplerCount"})
                  /\ \A j \in SamplerIndices \ {last'.args[1]} :
                         prog'[p].mSamplerInterfaceBlocks[j]
                             = prog[p].mSamplerInterfaceBlocks[j]
                  /\ prog'[Other(p)] = prog[Other(p)]
           /\ op = "withSamplerBindings" =>
                  /\ SameExcept(prog[p], prog'[p], {"mSamplerBindings"})
                  /\ prog'[p].mSamplerBindings = last'.args[1]
                  /\ prog'[Other(p)] = prog[Other(p)]
           /\ op \in AccessorOps => prog' = prog]_vars

\* a binding map replaced another one on a populated object
C10_Witness ==
    /\ last.op = "withSamplerBindings"
    /\ last.args = <<"M2">>
    /\ prog[last.p].mSamplerBindings = "M2"
    /\ prog[last.p].mName = "mat2"
    /\ prog[last.p].mVariant = 255
    /\ prog[last.p].mShadersSource[VERTEX] = <<3>>
    /\ prog[last.p].mUniformInterfaceBlocks[0] = "U"
    /\ prog[last.p].mSamplerCount = 1

====
